---- MODULE Spec2Model ----
(***************************************************************************)
(* Account security and session state of the quiz game server              *)
(* (src/unnamed/part_000, the lockout-enabled server.js): the per-username *)
(* lockout maps, authenticateUser, the socket.io login and disconnect      *)
(* handlers and the gameState.players registry, registration, guest login, *)
(* logout and the gameCompleted handler.                                   *)
(*                                                                         *)
(* Handlers are async functions on one event loop: a handler runs          *)
(* atomically from one await of the Account Directory (supabase) to the    *)
(* next, and other handlers run in between.  One action of the model is    *)
(* one such run.                                                           *)
(***************************************************************************)
EXTENDS Integers, Sequences, FiniteSets, TLC

\* ------------------------------------------------------------ bounds
\* socket.io connections the server lives through; a client sends its next
\* login once the last was answered, so this is also the number of login
\* handlers that may await the directory at once
NumSockets == 2
\* the clock is observed over this many base lock periods
MaxPeriods == 1
\* wrong-password comparisons counted by the observer before it saturates
MaxFails == 6
\* gameCompleted handler invocations that may be in progress at once
NumGames == 2
\* games a user completes before the model stops counting GamesPlayed
MaxGames == 2

\* ------------------------------------------------------------ values
Sockets == 1..NumSockets
Usernames == {"alice", "bob"}
Passwords == {"secret", "guess"}
\* the credentials clients present: alice's password, a wrong password for
\* alice, and a login for bob, who has no record
Credentials == {<<"alice", "secret">>, <<"alice", "guess">>, <<"bob", "guess">>}
\* the userData of 'registerUser' events: a taken username and a new one
Registrations == {<<"alice", "guess">>, <<"bob", "guess">>}
\* `Guest${Math.floor(Math.random() * 1000)}`, part_000:378
Guests == {"Guest7"}
\* the scores of 'gameCompleted' events
Scores == {50, 80}
Games == 1..NumGames

\* JavaScript objects used as maps are functions whose domain is the set of
\* keys present: obj[k] = v and delete obj[k]
EmptyObject == [k \in {} |-> 0]
Put(obj, k, v) == [x \in (DOMAIN obj) \cup {k} |-> IF x = k THEN v ELSE obj[x]]
Delete(obj, k) == [x \in (DOMAIN obj) \ {k} |-> obj[x]]

\* the instants at which Date.now() is observed (ms): the start of each base
\* lock period and half a second into it
Instants == {p * 30000 + o : p \in 0..MaxPeriods, o \in {0, 500}}

\* sha256(message), src/unnamed/part_000:37-39: a deterministic digest,
\* distinct for the distinct passwords of the model
sha256(message) ==
  CASE message = "secret" -> "2bb80d53"
    [] message = "guess"  -> "b0f2a7e1"
    [] OTHER              -> "e3b0c442"

VARIABLES
  now,                \* Date.now()
  userLoginAttempts,  \* part_000:21
  userLockoutTimes,   \* part_000:22
  User,               \* the supabase 'User' table, keyed by Username
  players,            \* gameState.players, keyed by socket id
  conn,               \* each socket: "new", "open" (connected), "closed"
  login,              \* each socket's login handler awaiting the directory
  step,               \* what the last handler run did and emitted
  wrongRun,           \* observer: wrong-password comparisons per username
                      \* since start; Spoiled once a login of it succeeded
  lockedFor,          \* observer: the duration (ms) of each recorded lock
  register,           \* each socket's registerUser handler in progress
  game                \* the gameCompleted handlers in progress

vars == <<now, userLoginAttempts, userLockoutTimes, User, players, conn,
          login, step, wrongRun, lockedFor, register, game>>

Spoiled == MaxFails + 2
Saturate(n) == IF n >= MaxFails + 1 THEN MaxFails + 1 ELSE n

\* ------------------------------------------------------------ helpers
\* Math.pow(2, n) for n >= 0
RECURSIVE Pow2(_)
Pow2(n) == IF n <= 0 THEN 1 ELSE 2 * Pow2(n - 1)

\* Math.ceil(a / b) for a >= 0, b > 0
CeilDiv(a, b) == (a + b - 1) \div b

\* the remaining time rounded down instead of up
remainingSeconds_floor(unlockTime, currentTime) == (unlockTime - currentTime) \div 1000

\* Math.ceil((unlockTime - currentTime) / 1000), part_000:75
remainingSeconds(unlockTime, currentTime) == CeilDiv(unlockTime - currentTime, 1000)

\* a lock duration left in seconds: the conversion to ms forgotten
lockDuration_seconds(attempts) ==
  LET lockCount == attempts \div 3
  IN  30 * Pow2(lockCount - 1)

\* part_000:107-108: lockCount and lockDuration (ms) for a failure count >= 3
lockDuration(attempts) ==
  LET lockCount == attempts \div 3
  IN  30 * Pow2(lockCount - 1) * 1000

\* (userLoginAttempts[username] || 0), part_000:102
attemptsOf(username) ==
  IF username \in DOMAIN userLoginAttempts THEN userLoginAttempts[username] ELSE 0

\* a threshold that locks only after the 3rd failure
shouldLock_after3(attempts) == attempts > 3

\* a threshold that locks one failure early
shouldLock_at2(attempts) == attempts >= 2

\* a threshold that locks at the multiples of 3 only
shouldLock_multiple(attempts) == attempts >= 3 /\ attempts % 3 = 0

\* part_000:105: the failure count at which the account is locked
shouldLock(attempts) == attempts >= 3

\* a lock check that lets the last second of the lock through
stillLocked_early(username) ==
  /\ username \in DOMAIN userLockoutTimes
  /\ now + 1000 < userLockoutTimes[username]

\* part_000:69-73: the account is still locked
stillLocked(username) ==
  /\ username \in DOMAIN userLockoutTimes
  /\ now < userLockoutTimes[username]

\* an expiry test that misses the instant the lock ends
lockExpired_strict(username) ==
  /\ username \in DOMAIN userLockoutTimes
  /\ now > userLockoutTimes[username]

\* part_000:69,80: a lock is recorded and its period has expired
lockExpired(username) ==
  /\ username \in DOMAIN userLockoutTimes
  /\ ~(now < userLockoutTimes[username])

\* a presence list that names each username once
RECURSIVE distinctFrom(_, _, _)
distinctFrom(reg, s, seen) ==
  IF s > NumSockets THEN <<>>
  ELSE IF s \in DOMAIN reg /\ reg[s].online /\ reg[s].username \notin seen
         THEN <<reg[s].username>>
              \o distinctFrom(reg, s + 1, seen \cup {reg[s].username})
         ELSE distinctFrom(reg, s + 1, seen)
getOnlinePlayers_distinct(reg) == distinctFrom(reg, 1, {})

\* getOnlinePlayers(), part_000:42-46: one username per registry entry with
\* online set, in the iteration order of the keys (ascending socket id here)
RECURSIVE onlineFrom(_, _)
onlineFrom(reg, s) ==
  IF s > NumSockets THEN <<>>
  ELSE (IF s \in DOMAIN reg /\ reg[s].online THEN <<reg[s].username>> ELSE <<>>)
       \o onlineFrom(reg, s + 1)
getOnlinePlayers(reg) == onlineFrom(reg, 1)

\* ------------------------------------------------------------ step records
\* what authenticateUser returned: { error, lockTimeRemaining, failedAttempts }
\* (user, the row itself, is kept in found)
Result(error, lockTimeRemaining, failedAttempts) ==
  [error |-> error, lockTimeRemaining |-> lockTimeRemaining,
   failedAttempts |-> failedAttempts]
NoResult == Result("none", 0, 0)

\* the 'loginResponse' emitted to the socket
Response(success, message, lockTimeRemaining, attemptsLeft) ==
  [success |-> success, message |-> message,
   lockTimeRemaining |-> lockTimeRemaining, attemptsLeft |-> attemptsLeft]
NoResponse == Response(FALSE, "none", 0, 0)

\* one handler run: the event it served, authenticateUser's result, the
\* response emitted, the number of directory reads it consumed, the
\* 'playerUpdate' broadcast it emitted, if any, and the names of all the
\* events it emitted, in order
Step(op, socket, username, password, result, response, reads, broadcast, online, emitted) ==
  [op |-> op, socket |-> socket, username |-> username, password |-> password,
   result |-> result,
   response |-> response, reads |-> reads, broadcast |-> broadcast,
   online |-> online, emitted |-> emitted]

Quiet(op, socket, username) ==
  Step(op, socket, username, "", NoResult, NoResponse, 0, FALSE, <<>>, <<>>)

IdleHandler == [pc |-> "idle", username |-> "", password |-> ""]

\* a gameCompleted handler: its socket, player.username, score and the
\* user.Highscore and user.GamesPlayed it read
IdleGame == [pc |-> "idle", socket |-> 0, username |-> "", score |-> 0,
             Highscore |-> 0, GamesPlayed |-> 0]

\* ------------------------------------------------------------ initial state
\* the server has just started: no lockout state, no session, no connection;
\* the directory holds alice's record and none for bob
Init ==
  /\ now = 0
  /\ userLoginAttempts = EmptyObject
  /\ userLockoutTimes = EmptyObject
  /\ User = Put(EmptyObject, "alice",
                [UserID |-> 1, Username |-> "alice",
                 Password_hash |-> sha256("secret"), Highscore |-> 0,
                 GamesPlayed |-> 0])
  /\ players = EmptyObject
  /\ conn = [s \in Sockets |-> "new"]
  /\ login = [s \in Sockets |-> IdleHandler]
  /\ step = Quiet("init", 0, "")
  /\ wrongRun = [u \in Usernames |-> 0]
  /\ lockedFor = EmptyObject
  /\ register = [s \in Sockets |-> IdleHandler]
  /\ game = [g \in Games |-> IdleGame]

\* ------------------------------------------------------------ the clock
\* time passes between handler runs
Tick ==
  /\ \E t \in Instants : t > now /\ now' = t
  /\ step' = Quiet("tick", 0, "")
  /\ UNCHANGED <<userLoginAttempts, userLockoutTimes, User, players, conn,
                 login, wrongRun, lockedFor, register, game>>

\* ------------------------------------------------------------ connections
\* io.on('connection'), part_000:265-266: a new socket; ids are fresh, so the
\* sockets are taken in order
Connect(s) ==
  /\ conn[s] = "new"
  /\ \A r \in Sockets : r < s => conn[r] # "new"
  /\ conn' = [conn EXCEPT ![s] = "open"]
  /\ step' = Quiet("connection", s, "")
  /\ UNCHANGED <<now, userLoginAttempts, userLockoutTimes, User, players,
                 login, wrongRun, lockedFor, register, game>>

\* a disconnect that removes the entry without telling anyone
Disconnect_silent(s) ==
  /\ conn[s] = "open"
  /\ conn' = [conn EXCEPT ![s] = "closed"]
  /\ players' = Delete(players, s)
  /\ step' = Quiet("disconnect", s, "")
  /\ UNCHANGED <<now, userLoginAttempts, userLockoutTimes, User, login,
                 wrongRun, lockedFor, register, game>>

\* socket.on('disconnect'), part_000:493-499
Disconnect(s) ==
  /\ conn[s] = "open"
  /\ conn' = [conn EXCEPT ![s] = "closed"]
  /\ IF s \in DOMAIN players
       THEN /\ players' = Delete(players, s)
            /\ step' = Step("disconnect", s, "", "", NoResult, NoResponse, 0,
                            TRUE, getOnlinePlayers(players'),
                            <<"playerUpdate">>)
       ELSE /\ players' = players
            /\ step' = Quiet("disconnect", s, "")
  /\ UNCHANGED <<now, userLoginAttempts, userLockoutTimes, User, login,
                 wrongRun, lockedFor, register, game>>

\* ------------------------------------------------------------ login
\* socket.on('login') -> authenticateUser, part_000:319-332 and 67-80: the
\* account is still locked; the handler answers without awaiting anything
LoginLocked(s, username, password) ==
  /\ conn[s] = "open"
  /\ login[s].pc = "idle"
  /\ stillLocked(username)
  /\ LET unlockTime == userLockoutTimes[username]
         seconds == remainingSeconds(unlockTime, now)
     IN  step' = Step("login", s, username, password,
                      Result("Account locked", seconds, 0),
                      Response(FALSE, "Account locked", seconds, 0),
                      0, FALSE, <<>>, <<"loginResponse">>)
  /\ UNCHANGED <<now, userLoginAttempts, userLockoutTimes, User, players,
                 conn, login, wrongRun, lockedFor, register, game>>

\* authenticateUser, part_000:67-93: not locked; an expired lock is removed
\* and the counter reset; then the handler awaits the directory's answer
LoginAwait(s, username, password) ==
  /\ conn[s] = "open"
  /\ login[s].pc = "idle"
  /\ ~stillLocked(username)
  /\ IF lockExpired(username)
       THEN /\ userLockoutTimes' = Delete(userLockoutTimes, username)
            /\ userLoginAttempts' = Put(userLoginAttempts, username, 0)
            /\ lockedFor' = Delete(lockedFor, username)
       ELSE UNCHANGED <<userLoginAttempts, userLockoutTimes, lockedFor>>
  /\ login' = [login EXCEPT ![s] = [pc |-> "await", username |-> username,
                                    password |-> password]]
  /\ step' = Quiet("loginAwait", s, username)
  /\ UNCHANGED <<now, User, players, conn, wrongRun, register, game>>

\* a lookup miss counted like a wrong password
LoginNotFound_counted(s) ==
  LET username == login[s].username
  IN  /\ step' = Step("login", s, username, login[s].password,
                      Result("User not found", 0, 0),
                      Response(FALSE, "User not found", 0, 0),
                      1, FALSE, <<>>, <<"loginResponse">>)
      /\ userLoginAttempts' =
           Put(userLoginAttempts, username, attemptsOf(username) + 1)
      /\ UNCHANGED <<userLockoutTimes, players, wrongRun, lockedFor>>

\* part_000:95-98: the directory answered with an error or without a row
LoginNotFound(s) ==
  LET username == login[s].username
  IN  /\ step' = Step("login", s, username, login[s].password,
                      Result("User not found", 0, 0),
                      Response(FALSE, "User not found", 0, 0),
                      1, FALSE, <<>>, <<"loginResponse">>)
      /\ UNCHANGED <<userLoginAttempts, userLockoutTimes, players, wrongRun,
                     lockedFor>>

\* a wrong password that is counted and answered, yet gets the session
LoginWrongPassword_session(s) ==
  LET username == login[s].username
      attempts == attemptsOf(username) + 1
  IN  /\ userLoginAttempts' = Put(userLoginAttempts, username, attempts)
      /\ players' = Put(players, s, [userId |-> User[username].UserID,
                                     username |-> username,
                                     online |-> TRUE, isGuest |-> FALSE])
      /\ step' = Step("login", s, username, login[s].password,
                      Result("Invalid password", 0, attempts),
                      Response(FALSE, "Invalid password", 0, 3 - attempts),
                      1, FALSE, <<>>, <<"loginResponse">>)
      /\ UNCHANGED <<userLockoutTimes, lockedFor, wrongRun>>

\* part_000:100-120 and 326-338: the digests differ
LoginWrongPassword(s) ==
  LET username == login[s].username
      attempts == attemptsOf(username) + 1
      duration == lockDuration(attempts)
      seconds == CeilDiv(duration, 1000)
  IN  /\ userLoginAttempts' = Put(userLoginAttempts, username, attempts)
      /\ IF shouldLock(attempts)
           THEN /\ userLockoutTimes' =
                     Put(userLockoutTimes, username, now + duration)
                /\ lockedFor' = Put(lockedFor, username, duration)
                /\ step' = Step("login", s, username, login[s].password,
                                Result("Account locked", seconds, 0),
                                Response(FALSE, "Account locked", seconds, 0),
                                1, FALSE, <<>>, <<"loginResponse">>)
           ELSE /\ userLockoutTimes' = userLockoutTimes
                /\ lockedFor' = lockedFor
                /\ step' = Step("login", s, username, login[s].password,
                                Result("Invalid password", 0, attempts),
                                Response(FALSE, "Invalid password", 0,
                                         3 - attempts),
                                1, FALSE, <<>>, <<"loginResponse">>)
      /\ wrongRun' = [wrongRun EXCEPT ![username] =
                        IF @ = Spoiled THEN Spoiled ELSE Saturate(@ + 1)]
      /\ UNCHANGED players

\* a success that resets the counters of all usernames
LoginSuccess_resetsAll(s) ==
  LET username == login[s].username
      data == User[username]
  IN  /\ userLoginAttempts' =
           [u \in (DOMAIN userLoginAttempts) \cup {username} |-> 0]
      /\ players' = Put(players, s, [userId |-> data.UserID,
                                     username |-> data.Username,
                                     online |-> TRUE, isGuest |-> FALSE])
      /\ step' = Step("login", s, username, login[s].password,
                      NoResult, Response(TRUE, "none", 0, 0),
                      1, TRUE, getOnlinePlayers(players'),
                      <<"loginResponse", "playerUpdate">>)
      /\ wrongRun' = [wrongRun EXCEPT ![username] = Spoiled]
      /\ UNCHANGED <<userLockoutTimes, lockedFor>>

\* a success that also clears the lock of the username
LoginSuccess_clears(s) ==
  LET username == login[s].username
      data == User[username]
  IN  /\ userLoginAttempts' = Put(userLoginAttempts, username, 0)
      /\ userLockoutTimes' = Delete(userLockoutTimes, username)
      /\ lockedFor' = Delete(lockedFor, username)
      /\ players' = Put(players, s, [userId |-> data.UserID,
                                     username |-> data.Username,
                                     online |-> TRUE, isGuest |-> FALSE])
      /\ step' = Step("login", s, username, login[s].password,
                      NoResult, Response(TRUE, "none", 0, 0),
                      1, TRUE, getOnlinePlayers(players'),
                      <<"loginResponse", "playerUpdate">>)
      /\ wrongRun' = [wrongRun EXCEPT ![username] = Spoiled]

\* part_000:122-125 and 347-366: the digests agree
LoginSuccess(s) ==
  LET username == login[s].username
      data == User[username]
  IN  /\ userLoginAttempts' = Put(userLoginAttempts, username, 0)
      /\ players' = Put(players, s, [userId |-> data.UserID,
                                     username |-> data.Username,
                                     online |-> TRUE, isGuest |-> FALSE])
      /\ step' = Step("login", s, username, login[s].password,
                      NoResult, Response(TRUE, "none", 0, 0),
                      1, TRUE, getOnlinePlayers(players'),
                      <<"loginResponse", "playerUpdate">>)
      /\ wrongRun' = [wrongRun EXCEPT ![username] = Spoiled]
      /\ UNCHANGED <<userLockoutTimes, lockedFor>>

\* the directory's answer to the select of part_000:89-93 arrives and the
\* handler runs to its end; directory is "ok" or "error" (the call failed)
LoginReturn(s, directory) ==
  /\ login[s].pc = "await"
  /\ LET username == login[s].username
         found == directory = "ok" /\ username \in DOMAIN User
     IN  IF ~found
           THEN LoginNotFound(s)
           ELSE IF User[username].Password_hash # sha256(login[s].password)
                  THEN LoginWrongPassword(s)
                  ELSE LoginSuccess(s)
  /\ login' = [login EXCEPT ![s] = IdleHandler]
  /\ UNCHANGED <<now, User, conn, register, game>>

\* a directory call that throws and is not caught: the handler ends without
\* answering
LoginThrow_uncaught(s) ==
  /\ login[s].pc = "await"
  /\ step' = Step("login", s, login[s].username, login[s].password,
                  Result("thrown", 0, 0), NoResponse, 1, FALSE, <<>>, <<>>)
  /\ login' = [login EXCEPT ![s] = IdleHandler]
  /\ UNCHANGED <<now, userLoginAttempts, userLockoutTimes, User, players,
                 conn, wrongRun, lockedFor, register, game>>

\* part_000:320-324 and 367-373: the awaited authenticateUser rejects (the
\* directory call throws); the catch block answers 'Login failed'
LoginThrow(s) ==
  /\ login[s].pc = "await"
  /\ step' = Step("login", s, login[s].username, login[s].password,
                  Result("thrown", 0, 0),
                  Response(FALSE, "Login failed", 0, 0),
                  1, FALSE, <<>>, <<"loginResponse">>)
  /\ login' = [login EXCEPT ![s] = IdleHandler]
  /\ UNCHANGED <<now, userLoginAttempts, userLockoutTimes, User, players,
                 conn, wrongRun, lockedFor, register, game>>

\* ------------------------------------------------------------ registration
\* socket.on('registerUser'), part_000:269-276: the handler asks the
\* directory whether the username exists and awaits the answer
RegisterAwait(s, username, password) ==
  /\ conn[s] = "open"
  /\ register[s].pc = "idle"
  /\ register' = [register EXCEPT ![s] = [pc |-> "check",
                                          username |-> username,
                                          password |-> password]]
  /\ step' = Quiet("registerAwait", s, username)
  /\ UNCHANGED <<now, userLoginAttempts, userLockoutTimes, User, players,
                 conn, login, wrongRun, lockedFor, game>>

\* the end of a registerUser handler that failed: what the directory
\* answered, the message sent, the directory calls made
RegisterFailed(s, answer, message, calls) ==
  /\ step' = Step("register", s, register[s].username, register[s].password,
                  Result(answer, 0, 0), Response(FALSE, message, 0, 0),
                  calls, FALSE, <<>>, <<"registrationResponse">>)
  /\ register' = [register EXCEPT ![s] = IdleHandler]
  /\ UNCHANGED <<User, players>>

\* part_000:285-286: no row was returned; registerUser() sends the insert
\* and the handler awaits its answer
RegisterInsert(s, answer) ==
  /\ register' = [register EXCEPT ![s].pc = "insert"]
  /\ step' = Step("registerInsert", s, register[s].username,
                  register[s].password, Result(answer, 0, 0), NoResponse,
                  1, FALSE, <<>>, <<>>)
  /\ UNCHANGED <<User, players>>

\* an existence check whose answer is not looked at
RegisterExists_unchecked(s) == RegisterInsert(s, "none")

\* part_000:278-283: the existence check returned a row
RegisterExists(s) ==
  RegisterFailed(s, "none", "Username already exists", 1)

\* the answer to the select of part_000:272-276 arrives; directory is "ok",
\* "error" (the call returned an error and no data) or "throw"
RegisterChecked(s, directory) ==
  /\ register[s].pc = "check"
  /\ LET existingUser == directory = "ok" /\ register[s].username \in DOMAIN User
     IN  IF directory = "throw"
           THEN RegisterFailed(s, "thrown", "Registration failed", 1)
           ELSE IF existingUser
                  THEN RegisterExists(s)
                  ELSE RegisterInsert(s, IF directory = "ok" THEN "none"
                                         ELSE "error")
  /\ UNCHANGED <<now, userLoginAttempts, userLockoutTimes, conn, login,
                 wrongRun, lockedFor, game>>

\* an insert error that is not thrown: the handler goes on as if the row
\* had been created
RegisterRejected_ignored(s) ==
  LET username == register[s].username
  IN  /\ players' = Put(players, s, [userId |-> 0, username |-> username,
                                     online |-> TRUE, isGuest |-> FALSE])
      /\ step' = Step("register", s, username, register[s].password,
                      Result("error", 0, 0), Response(TRUE, "none", 0, 0),
                      2, TRUE, getOnlinePlayers(players'),
                      <<"registrationResponse", "playerUpdate">>)
      /\ register' = [register EXCEPT ![s] = IdleHandler]
      /\ User' = User

\* part_000:288 and 309-315: the insert returned an error (the username
\* is taken, or the call failed); it is thrown and the catch block answers
RegisterRejected(s) ==
  RegisterFailed(s, "error", "Registration failed", 2)

\* part_000:50-65 and 290-308: the row is created; the session is set up,
\* the response sent and the presence list broadcast
RegisterSuccess(s) ==
  LET username == register[s].username
      newUser == [UserID |-> Cardinality(DOMAIN User) + 1,
                  Username |-> username,
                  Password_hash |-> sha256(register[s].password),
                  Highscore |-> 0, GamesPlayed |-> 0]
  IN  /\ User' = Put(User, username, newUser)
      /\ players' = Put(players, s, [userId |-> newUser.UserID,
                                     username |-> newUser.Username,
                                     online |-> TRUE, isGuest |-> FALSE])
      /\ step' = Step("register", s, username, register[s].password,
                      NoResult, Response(TRUE, "none", 0, 0),
                      2, TRUE, getOnlinePlayers(players'),
                      <<"registrationResponse", "playerUpdate">>)
      /\ register' = [register EXCEPT ![s] = IdleHandler]

\* the answer to the insert of part_000:53-62 arrives; the directory keeps
\* one row per Username and rejects a second one
RegisterReturn(s, directory) ==
  /\ register[s].pc = "insert"
  /\ IF directory = "ok" /\ register[s].username \notin DOMAIN User
       THEN RegisterSuccess(s)
       ELSE RegisterRejected(s)
  /\ UNCHANGED <<now, userLoginAttempts, userLockoutTimes, conn, login,
                 wrongRun, lockedFor, game>>

\* ------------------------------------------------------------ guests, logout
\* socket.on('guestLogin') -> handleGuestLogin, part_000:376-379 and 514-532;
\* a guest entry has no userId
GuestLogin(s, username) ==
  /\ conn[s] = "open"
  /\ players' = Put(players, s, [userId |-> 0, username |-> username,
                                 online |-> TRUE, isGuest |-> TRUE])
  /\ step' = Step("guestLogin", s, username, "", NoResult,
                  Response(TRUE, "none", 0, 0), 0, TRUE,
                  getOnlinePlayers(players'),
                  <<"loginResponse", "playerUpdate">>)
  /\ UNCHANGED <<now, userLoginAttempts, userLockoutTimes, User, conn, login,
                 wrongRun, lockedFor, register, game>>

\* a logout that leaves the entry in the registry
Logout_kept(s) ==
  /\ conn[s] = "open"
  /\ step' = IF s \in DOMAIN players
               THEN Step("logout", s, players[s].username, "", NoResult,
                         NoResponse, 0, TRUE, getOnlinePlayers(players),
                         <<"playerUpdate">>)
               ELSE Quiet("logout", s, "")
  /\ UNCHANGED <<now, userLoginAttempts, userLockoutTimes, User, players, conn,
                 login, wrongRun, lockedFor, register, game>>

\* socket.on('logout'), part_000:485-490; the step names the username of
\* the entry removed
Logout(s) ==
  /\ conn[s] = "open"
  /\ IF s \in DOMAIN players
       THEN /\ players' = Delete(players, s)
            /\ step' = Step("logout", s, players[s].username, "", NoResult,
                            NoResponse, 0, TRUE, getOnlinePlayers(players'),
                            <<"playerUpdate">>)
       ELSE /\ players' = players
            /\ step' = Quiet("logout", s, "")
  /\ UNCHANGED <<now, userLoginAttempts, userLockoutTimes, User, conn, login,
                 wrongRun, lockedFor, register, game>>

\* ------------------------------------------------------------ gameCompleted
\* a comparison that also takes a score equal to the stored one
isHigher_orEqual(score, highscore) == score >= highscore

\* part_000:419 and 455: score > user.Highscore
isHigher(score, highscore) == score > highscore

\* a step of a gameCompleted handler and the events it emitted
GameStep(op, g, emitted) ==
  Step(op, game[g].socket, game[g].username, "", NoResult, NoResponse, 0,
       FALSE, <<>>, emitted)

\* socket.on('gameCompleted'), part_000:393-396: no session, or a guest
GameSkipped(s) ==
  /\ conn[s] = "open"
  /\ IF s \in DOMAIN players THEN players[s].isGuest ELSE TRUE
  /\ step' = Quiet("gameCompleted", s, "")
  /\ UNCHANGED <<now, userLoginAttempts, userLockoutTimes, User, players,
                 conn, login, wrongRun, lockedFor, register, game>>

\* part_000:393-403: the handler of a logged-in player asks the directory
\* for the user's row and awaits it; a player has a row, and the model
\* follows a user up to MaxGames recorded games
GameAwait(g, s, score) ==
  /\ conn[s] = "open"
  /\ s \in DOMAIN players
  /\ ~players[s].isGuest
  /\ game[g].pc = "idle"
  /\ players[s].username \in DOMAIN User
  /\ User[players[s].username].GamesPlayed < MaxGames
  /\ game' = [game EXCEPT ![g] = [pc |-> "select", socket |-> s,
                                  username |-> players[s].username,
                                  score |-> score, Highscore |-> 0,
                                  GamesPlayed |-> 0]]
  /\ step' = Quiet("gameAwait", s, players[s].username)
  /\ UNCHANGED <<now, userLoginAttempts, userLockoutTimes, User, players,
                 conn, login, wrongRun, lockedFor, register>>

\* part_000:398-408: the row arrives, or the call fails and the handler ends
GameSelected(g, directory) ==
  /\ game[g].pc = "select"
  /\ IF directory = "ok" /\ game[g].username \in DOMAIN User
       THEN LET user == User[game[g].username]
            IN  /\ game' = [game EXCEPT ![g].pc = "update",
                                        ![g].Highscore = user.Highscore,
                                        ![g].GamesPlayed = user.GamesPlayed]
                /\ step' = GameStep("gameSelect", g, <<>>)
       ELSE /\ game' = [game EXCEPT ![g] = IdleGame]
            /\ step' = GameStep("gameCompleted", g, <<>>)
  /\ UNCHANGED <<now, userLoginAttempts, userLockoutTimes, User, players,
                 conn, login, wrongRun, lockedFor, register>>

\* part_000:410-432: the update built from the row read is applied by the
\* directory, or the call fails and the handler ends
GameUpdated(g, directory) ==
  /\ game[g].pc = "update"
  /\ IF directory = "ok"
       THEN LET gamesPlayed == game[g].GamesPlayed + 1
            IN  /\ User' = [User EXCEPT
                      ![game[g].username].GamesPlayed = gamesPlayed,
                      ![game[g].username].Highscore =
                         IF isHigher(game[g].score, game[g].Highscore)
                           THEN game[g].score ELSE @]
                /\ game' = [game EXCEPT ![g].pc = "reselect"]
                /\ step' = GameStep("gameUpdate", g, <<>>)
       ELSE /\ User' = User
            /\ game' = [game EXCEPT ![g] = IdleGame]
            /\ step' = GameStep("gameCompleted", g, <<>>)
  /\ UNCHANGED <<now, userLoginAttempts, userLockoutTimes, players, conn,
                 login, wrongRun, lockedFor, register>>

\* part_000:434-461: the updated row arrives (or not), 'userUpdated' and
\* 'newHighScore' are emitted and the leaderboard is asked for; a call that
\* throws ends the handler in its catch block
GameReselected(g, directory) ==
  /\ game[g].pc = "reselect"
  /\ IF directory = "throw"
       THEN /\ game' = [game EXCEPT ![g] = IdleGame]
            /\ step' = GameStep("gameCompleted", g, <<>>)
       ELSE /\ game' = [game EXCEPT ![g].pc = "leaderboard"]
            /\ step' = GameStep("gameReselect", g,
                 (IF directory = "ok" THEN <<"userUpdated">> ELSE <<>>)
                 \o (IF isHigher(game[g].score, game[g].Highscore)
                       THEN <<"newHighScore">> ELSE <<>>))
  /\ UNCHANGED <<now, userLoginAttempts, userLockoutTimes, User, players,
                 conn, login, wrongRun, lockedFor, register>>

\* part_000:463-471 and 177-201: getLeaderboard() returns a list, also when
\* its call failed, and the list is broadcast
GameLeaderboard(g) ==
  /\ game[g].pc = "leaderboard"
  /\ game' = [game EXCEPT ![g] = IdleGame]
  /\ step' = GameStep("gameCompleted", g, <<"leaderboardUpdated">>)
  /\ UNCHANGED <<now, userLoginAttempts, userLockoutTimes, User, players,
                 conn, login, wrongRun, lockedFor, register>>

\* ------------------------------------------------------------ specification
\* a login event of some client
LoginEvent(S) ==
  \/ \E s \in S, c \in Credentials : LoginLocked(s, c[1], c[2])
  \/ \E s \in S, c \in Credentials : LoginAwait(s, c[1], c[2])
  \/ \E s \in S, d \in {"ok", "error"} : LoginReturn(s, d)

\* Lockout: clients connect and log in while time passes.  Disconnects
\* neither read nor write the lockout maps and are left to SpecSession.
Next ==
  \/ Tick
  \/ \E s \in Sockets : Connect(s)
  \/ LoginEvent(Sockets)

Spec == Init /\ [][Next]_vars

\* Sessions: clients connect, log in and disconnect; the clock stands still
NextSession ==
  \/ \E s \in Sockets : Connect(s)
  \/ \E s \in Sockets : Disconnect(s)
  \/ LoginEvent(Sockets)

SpecSession == Init /\ [][NextSession]_vars

\* a registerUser event of some client
RegisterEvent(S) ==
  \/ \E s \in S, r \in Registrations : RegisterAwait(s, r[1], r[2])
  \/ \E s \in S, d \in {"ok", "error", "throw"} : RegisterChecked(s, d)
  \/ \E s \in S, d \in {"ok", "error"} : RegisterReturn(s, d)

\* Presence: clients connect, log in as alice or as guests, register bob,
\* log out and disconnect; the clock stands still and no password is wrong
NextPresence ==
  \/ \E s \in Sockets : Connect(s)
  \/ \E s \in Sockets : Disconnect(s)
  \/ \E s \in Sockets : Logout(s)
  \/ \E s \in Sockets, g \in Guests : GuestLogin(s, g)
  \/ \E s \in Sockets : LoginAwait(s, "alice", "secret")
  \/ \E s \in Sockets, d \in {"ok", "error"} : LoginReturn(s, d)
  \/ \E s \in Sockets : RegisterAwait(s, "bob", "guess")
  \/ \E s \in Sockets : RegisterChecked(s, "ok")
  \/ \E s \in Sockets, d \in {"ok", "error"} : RegisterReturn(s, d)

SpecPresence == Init /\ [][NextPresence]_vars

\* Registration: clients connect, register and disconnect, and the
\* directory's calls may fail
NextRegister ==
  \/ \E s \in Sockets : Connect(s)
  \/ \E s \in Sockets : Disconnect(s)
  \/ RegisterEvent(Sockets)

SpecRegister == Init /\ [][NextRegister]_vars

\* Responses: clients connect, log in and register, and the directory's
\* calls may fail or throw; the clock stands still
NextRespond ==
  \/ \E s \in Sockets : Connect(s)
  \/ LoginEvent(Sockets)
  \/ \E s \in Sockets : LoginThrow(s)
  \/ RegisterEvent(Sockets)

SpecRespond == Init /\ [][NextRespond]_vars

\* a gameCompleted event of some client, served by one of the handlers G;
\* a new handler takes the first free place
GameEvent(G) ==
  \/ \E s \in Sockets : GameSkipped(s)
  \/ \E g \in G, s \in Sockets, score \in Scores :
       /\ \A h \in G : h < g => game[h].pc # "idle"
       /\ GameAwait(g, s, score)
  \/ \E g \in G, d \in {"ok", "error"} : GameSelected(g, d)
  \/ \E g \in G, d \in {"ok", "error"} : GameUpdated(g, d)
  \/ \E g \in G, d \in {"ok", "error", "throw"} : GameReselected(g, d)
  \/ \E g \in G : GameLeaderboard(g)

\* Games: clients connect, log in as alice and complete games, their
\* handlers overlapping at the directory awaits
NextGame ==
  \/ \E s \in Sockets : Connect(s)
  \/ \E s \in Sockets : LoginAwait(s, "alice", "secret")
  \/ \E s \in Sockets : LoginReturn(s, "ok")
  \/ GameEvent(Games)

SpecGame == Init /\ [][NextGame]_vars

\* Games one at a time: a gameCompleted event is served to its end before
\* the next one arrives
NextGameInTurn ==
  \/ \E s \in Sockets : Connect(s)
  \/ \E s \in Sockets : LoginAwait(s, "alice", "secret")
  \/ \E s \in Sockets : LoginReturn(s, "ok")
  \/ GameEvent({1})

SpecGameInTurn == Init /\ [][NextGameInTurn]_vars

\* Sessions set up: clients connect, log in with right and wrong passwords
\* or as guests, and register bob, and the directory's calls may fail or
\* throw; the clock stands still
NextEstablish ==
  \/ \E s \in Sockets : Connect(s)
  \/ LoginEvent(Sockets)
  \/ \E s \in Sockets : LoginThrow(s)
  \/ \E s \in Sockets, g \in Guests : GuestLogin(s, g)
  \/ \E s \in Sockets : RegisterAwait(s, "bob", "guess")
  \/ \E s \in Sockets, d \in {"ok", "throw"} : RegisterChecked(s, d)
  \/ \E s \in Sockets, d \in {"ok", "error"} : RegisterReturn(s, d)

SpecEstablish == Init /\ [][NextEstablish]_vars

\* Isolation: clients connect, log in as alice and as bob with right and
\* wrong passwords or as guests, register bob, log out and disconnect; the
\* clock stands still
NextIsolation ==
  \/ \E s \in Sockets : Connect(s)
  \/ \E s \in Sockets : Disconnect(s)
  \/ \E s \in Sockets : Logout(s)
  \/ \E s \in Sockets, g \in Guests : GuestLogin(s, g)
  \/ LoginEvent(Sockets)
  \/ \E s \in Sockets : RegisterAwait(s, "bob", "guess")
  \/ \E s \in Sockets : RegisterChecked(s, "ok")
  \/ \E s \in Sockets : RegisterReturn(s, "ok")

SpecIsolation == Init /\ [][NextIsolation]_vars

\* One client: its logins are handled one after another
NextOneClient ==
  \/ Tick
  \/ Connect(1)
  \/ LoginEvent({1})

SpecOneClient == Init /\ [][NextOneClient]_vars

\* Two clients: at most two login handlers overlap at any time
NextTwoClients ==
  \/ Tick
  \/ \E s \in {1, 2} : Connect(s)
  \/ LoginEvent({1, 2})

SpecTwoClients == Init /\ [][NextTwoClients]_vars

\* ------------------------------------------------------------ observations
\* the last handler run compared a wrong password of username
WrongPassword(username) ==
  /\ step.op = "login"
  /\ step.username = username
  /\ step.reads = 1
  /\ step.result.error \in {"Invalid password", "Account locked"}

\* the last handler run returned a successful login of username
Succeeded(username) ==
  /\ step.op = "login"
  /\ step.username = username
  /\ step.response.success

\* the step taken starts a login of username: its socket's handler was idle
Starts(username) ==
  /\ step'.op \in {"login", "loginAwait"}
  /\ step'.username = username
  /\ login[step'.socket].pc = "idle"

\* the step taken ends a login of username: the directory answered
Returns(username) ==
  /\ step'.op = "login"
  /\ step'.username = username
  /\ login[step'.socket].pc = "await"

\* the number of times x occurs in a list
Occurrences(list, x) == Cardinality({i \in DOMAIN list : list[i] = x})

\* the connections whose registry entry carries username
Holders(reg, username) == {s \in DOMAIN reg : reg[s].username = username}

\* the usernames a registry entry can carry
Names == Usernames \cup Guests

\* the step taken leaves the lockout state of username as it was
Untouched(username) ==
  /\ username \in DOMAIN userLoginAttempts' <=>
       username \in DOMAIN userLoginAttempts
  /\ username \in DOMAIN userLoginAttempts
       => userLoginAttempts'[username] = userLoginAttempts[username]
  /\ username \in DOMAIN userLockoutTimes' <=>
       username \in DOMAIN userLockoutTimes
  /\ username \in DOMAIN userLockoutTimes
       => userLockoutTimes'[username] = userLockoutTimes[username]

\* ------------------------------------------------------------ claims

\* C1: starting with no attempt state and with no successful login in
\* between, the first two wrong-password logins of a username are answered
\* 'Invalid password' and the third 'Account locked' with lockTimeRemaining
\* 30 and lockedUntil = the time of that failure + 30000 ms.
C1_ThirdFailureLocks ==
  \A u \in Usernames :
    WrongPassword(u) =>
      /\ wrongRun[u] \in {1, 2} => step.result.error = "Invalid password"
      /\ wrongRun[u] = 3 =>
           /\ step.result.error = "Account locked"
           /\ step.result.lockTimeRemaining = 30
           /\ step.response.lockTimeRemaining = 30
           /\ u \in DOMAIN userLockoutTimes
           /\ userLockoutTimes[u] = now + 30000

C1_Witness ==
  /\ WrongPassword("alice")
  /\ wrongRun["alice"] = 3
  /\ step.result.error = "Account locked"

\* C2: with the logins of a username handled one after another and no
\* successful login in between, the lock produced by the 6th wrong password
\* in total lasts 60 s and the lock produced by the 9th lasts 120 s.
C2_LockDoubles ==
  \A u \in Usernames :
    WrongPassword(u) =>
      /\ wrongRun[u] = 6 =>
           /\ step.result.error = "Account locked"
           /\ step.result.lockTimeRemaining = 60
           /\ u \in DOMAIN userLockoutTimes
           /\ userLockoutTimes[u] = now + 60000
      /\ wrongRun[u] = 9 =>
           /\ step.result.error = "Account locked"
           /\ step.result.lockTimeRemaining = 120
           /\ u \in DOMAIN userLockoutTimes
           /\ userLockoutTimes[u] = now + 120000

\* C3: in the state right after authenticateUser returned a successful login
\* of u, failedCount[u] = 0 and there is no lockedUntil entry of u.
C3_SuccessClearsLock ==
  \A u \in Usernames :
    Succeeded(u) =>
      /\ attemptsOf(u) = 0
      /\ u \notin DOMAIN userLockoutTimes

\* C4: while u is locked (lockedUntil[u] exists and now < lockedUntil[u]),
\* every login of u that starts is answered 'Account locked' without a
\* directory read, whatever the password, and leaves failedCount[u] and
\* lockedUntil[u] as they were.
C4_LockedIsRejected ==
  [][\A u \in Usernames :
       (/\ u \in DOMAIN userLockoutTimes
        /\ now < userLockoutTimes[u]
        /\ Starts(u))
       => /\ step'.op = "login"
          /\ step'.result.error = "Account locked"
          /\ step'.response.message = "Account locked"
          /\ step'.reads = 0
          /\ login' = login
          /\ userLoginAttempts' = userLoginAttempts
          /\ userLockoutTimes' = userLockoutTimes]_vars

C4_Witness ==
  /\ step.op = "login"
  /\ step.username = "alice"
  /\ step.password = "secret"
  /\ step.reads = 0
  /\ step.result.error = "Account locked"
  /\ "alice" \in DOMAIN userLockoutTimes
  /\ now < userLockoutTimes["alice"]

\* C5: a login of a username without a record in the directory is answered
\* 'User not found', and no such username ever has a failedCount or a
\* lockedUntil.
C5_NotFoundNotCounted ==
  /\ \A u \in Usernames \ DOMAIN User :
       /\ u \notin DOMAIN userLoginAttempts
       /\ u \notin DOMAIN userLockoutTimes
  /\ (step.op = "login" /\ step.username \notin DOMAIN User)
       => /\ step.result.error = "User not found"
          /\ step.response.message = "User not found"
          /\ ~step.response.success

C5_Witness ==
  /\ step.op = "login"
  /\ step.username = "bob"
  /\ step.reads = 1
  /\ step.result.error = "User not found"
  /\ \E s \in Sockets : s # step.socket /\ login[s].pc = "await"
                        /\ login[s].username = "bob"

\* C6: a login of u that starts when lockedUntil[u] exists and
\* now >= lockedUntil[u] deletes lockedUntil[u], resets failedCount[u] to 0
\* and goes on to the directory lookup; a login whose lookup returns the
\* record and whose password is correct succeeds, with failedCount[u] = 0
\* afterwards.
C6_ExpiryResets ==
  [][\A u \in Usernames :
       /\ (/\ u \in DOMAIN userLockoutTimes
           /\ now >= userLockoutTimes[u]
           /\ Starts(u))
          => /\ u \notin DOMAIN userLockoutTimes'
             /\ u \in DOMAIN userLoginAttempts'
             /\ userLoginAttempts'[u] = 0
             /\ step'.op = "loginAwait"
             /\ login'[step'.socket].pc = "await"
             /\ login'[step'.socket].username = u
       /\ (/\ Returns(u)
           /\ step'.result.error # "User not found"
           /\ u \in DOMAIN User
           /\ User[u].Password_hash = sha256(login[step'.socket].password))
          => /\ step'.response.success
             /\ userLoginAttempts'[u] = 0]_vars

\* a login with the right password is awaiting the directory after its lock
\* check removed an expired lock: no login succeeded so far, yet the counter
\* is back at 0
C6_Witness ==
  /\ step.op = "loginAwait"
  /\ step.username = "alice"
  /\ login[step.socket].password = "secret"
  /\ wrongRun["alice"] = 3
  /\ now >= 30000
  /\ "alice" \notin DOMAIN userLockoutTimes
  /\ "alice" \in DOMAIN userLoginAttempts
  /\ userLoginAttempts["alice"] = 0

\* C7 as claimed: every step that sets lockedUntil[u] leaves failedCount[u] at
\* a positive multiple of 3, and a failure that leaves failedCount[u] at
\* another value does not touch lockedUntil[u] and is answered
\* 'Invalid password'.
C7_LockOnlyAtMultiplesOf3 ==
  [][\A u \in Usernames :
       /\ (/\ u \in DOMAIN userLockoutTimes'
           /\ (u \notin DOMAIN userLockoutTimes
               \/ userLockoutTimes'[u] # userLockoutTimes[u]))
          => /\ attemptsOf(u)' > 0
             /\ attemptsOf(u)' % 3 = 0
       /\ (Returns(u) /\ WrongPassword(u)' /\ attemptsOf(u)' % 3 # 0)
          => /\ step'.result.error = "Invalid password"
             /\ userLockoutTimes' = userLockoutTimes]_vars

\* C7 as amended: every step that sets lockedUntil[u] leaves failedCount[u] at
\* 3 or more, and a failure that leaves failedCount[u] below 3 does not touch
\* lockedUntil[u] and is answered 'Invalid password'.
C7_LockOnlyFrom3 ==
  [][\A u \in Usernames :
       /\ (/\ u \in DOMAIN userLockoutTimes'
           /\ (u \notin DOMAIN userLockoutTimes
               \/ userLockoutTimes'[u] # userLockoutTimes[u]))
          => attemptsOf(u)' >= 3
       /\ (Returns(u) /\ WrongPassword(u)' /\ attemptsOf(u)' < 3)
          => /\ step'.result.error = "Invalid password"
             /\ step'.response.message = "Invalid password"
             /\ userLockoutTimes' = userLockoutTimes]_vars

\* a failure has just set the lock with failedCount at 4
C7_Witness ==
  /\ WrongPassword("alice")
  /\ step.result.error = "Account locked"
  /\ attemptsOf("alice") = 4
  /\ "alice" \in DOMAIN userLockoutTimes

\* C8: for every username whose failedCount is 0 (no entry included), the
\* lock check of a login lets it go on to the directory lookup.
C8_ZeroCountIsAllowed ==
  \A u \in Usernames :
    attemptsOf(u) = 0 =>
      ~(u \in DOMAIN userLockoutTimes /\ now < userLockoutTimes[u])

\* C9: two overlapping wrong-password logins of a username can both pass the
\* lock check at failedCount = 2 and both be compared, which makes a 4th
\* wrong-password comparison with no lock expiry in between; with at most two
\* login handlers overlapping there is never a 5th.
C9_AtMostOneExtraAttempt ==
  \A u \in Usernames : attemptsOf(u) <= 4

\* the 4th comparison in a row has just happened
C9_Witness ==
  /\ WrongPassword("alice")
  /\ attemptsOf("alice") = 4
  /\ wrongRun["alice"] = 4

\* C10: every key of gameState.players is a connection that has not received
\* its disconnect event.
C10_NoSessionAfterDisconnect ==
  \A s \in DOMAIN players : conn[s] = "open"

\* C18: every 'Account locked' response issued by the lock check carries
\* lockTimeRemaining = ceil((lockedUntil - now) / 1000), which is at least 1
\* and at most the duration in seconds of the lock in effect.
C18_RemainingSeconds ==
  (step.op = "login" /\ step.reads = 0 /\ step.result.error = "Account locked")
    => LET u == step.username
       IN  /\ u \in DOMAIN userLockoutTimes
           /\ u \in DOMAIN lockedFor
           /\ step.response.message = "Account locked"
           /\ step.response.lockTimeRemaining =
                CeilDiv(userLockoutTimes[u] - now, 1000)
           /\ step.response.lockTimeRemaining >= 1
           /\ step.response.lockTimeRemaining * 1000 <= lockedFor[u]

\* the lock check answers half a second before the lock ends
C18_Witness ==
  /\ step.op = "login"
  /\ step.reads = 0
  /\ step.result.error = "Account locked"
  /\ step.username \in DOMAIN userLockoutTimes
  /\ userLockoutTimes[step.username] - now = 500
  /\ step.response.lockTimeRemaining = 1

\* C19: every 'Invalid password' response reports attemptsLeft in {1, 2},
\* equal to 3 - (failedCount mod 3) for the failedCount recorded by that
\* attempt.
C19_AttemptsLeft ==
  (step.op = "login" /\ step.response.message = "Invalid password")
    => /\ step.response.attemptsLeft \in {1, 2}
       /\ step.result.failedAttempts = attemptsOf(step.username)
       /\ step.response.attemptsLeft = 3 - (attemptsOf(step.username) % 3)

\* the second failure in a row is answered with one attempt left, while
\* another login of the username is awaiting the directory
C19_Witness ==
  /\ step.op = "login"
  /\ step.response.message = "Invalid password"
  /\ step.response.attemptsLeft = 1
  /\ attemptsOf(step.username) = 2
  /\ \E s \in Sockets : /\ login[s].pc = "await"
                         /\ login[s].username = step.username

\* C11: when connection c, holding a session with username n, logs out or
\* disconnects, its entry is gone and getOnlinePlayers() (and the list
\* broadcast) contains n exactly as many times as other connections hold a
\* session with n; the entry of c comes back only by an establish for c.
C11_RemovedFromPresence ==
  [][\A c \in Sockets :
       /\ (/\ step'.op \in {"logout", "disconnect"}
           /\ step'.socket = c
           /\ c \in DOMAIN players)
          => LET n == players[c].username
                 others == Cardinality(Holders(players', n) \ {c})
             IN  /\ c \notin DOMAIN players'
                 /\ Occurrences(getOnlinePlayers(players'), n) = others
                 /\ step'.broadcast
                 /\ Occurrences(step'.online, n) = others
       /\ (c \notin DOMAIN players /\ c \in DOMAIN players')
          => /\ step'.socket = c
             /\ step'.op \in {"login", "register", "guestLogin"}
             /\ step'.response.success]_vars

\* one of two connections logged in as alice has just logged out
C11_Witness ==
  /\ step.op = "logout"
  /\ step.username = "alice"
  /\ step.socket \notin DOMAIN players
  /\ getOnlinePlayers(players) = <<"alice">>
  /\ step.online = <<"alice">>

\* C12: getOnlinePlayers() has exactly one element per entry of
\* gameState.players, every entry has online = true, and a username held
\* by k connections appears exactly k times.
C12_NoDeduplication ==
  /\ \A s \in DOMAIN players : players[s].online
  /\ Len(getOnlinePlayers(players)) = Cardinality(DOMAIN players)
  /\ \A n \in Names :
       Occurrences(getOnlinePlayers(players), n) =
         Cardinality(Holders(players, n))

\* a second connection has just logged in as alice
C12_Witness ==
  /\ step.op = "login"
  /\ step.response.success
  /\ Cardinality(Holders(players, "alice")) = 2
  /\ step.online = <<"alice", "alice">>

\* C13: every step that changes gameState.players ends with a
\* 'playerUpdate' broadcast of the list computed from the registry after
\* the change, and every broadcast carries the current list.
C13_BroadcastAfterMutation ==
  [][/\ players' # players
        => /\ step'.broadcast
           /\ Len(step'.emitted) > 0
           /\ step'.emitted[Len(step'.emitted)] = "playerUpdate"
     /\ step'.broadcast
        => step'.online = getOnlinePlayers(players')]_vars

\* a registration has just added bob to a registry that holds alice
C13_Witness ==
  /\ step.op = "register"
  /\ step.response.success
  /\ step.broadcast
  /\ Len(step.online) = 2
  /\ Occurrences(step.online, "alice") = 1
  /\ Occurrences(step.online, "bob") = 1

\* C14: every 'login' event is answered by exactly one 'loginResponse' and
\* every 'registerUser' event by exactly one 'registrationResponse', emitted
\* by the step that ends its handler, whatever the directory did; no step
\* ends a handler without the response and no other step emits one.
C14_ExactlyOneResponse ==
  [][\A s \in Sockets :
       /\ (login[s].pc = "await" /\ login'[s].pc = "idle")
          => step'.op = "login" /\ step'.socket = s
       /\ (step'.op = "login" /\ step'.socket = s)
          => /\ Occurrences(step'.emitted, "loginResponse") = 1
             /\ step'.response.message # "none" \/ step'.response.success
             /\ login'[s].pc = "idle"
       /\ (step'.op = "loginAwait" /\ step'.socket = s)
          => /\ login[s].pc = "idle"
             /\ login'[s].pc = "await"
       /\ step'.op \notin {"login", "guestLogin"}
          => Occurrences(step'.emitted, "loginResponse") = 0
       /\ (register[s].pc # "idle" /\ register'[s].pc = "idle")
          => step'.op = "register" /\ step'.socket = s
       /\ (step'.op = "register" /\ step'.socket = s)
          => /\ Occurrences(step'.emitted, "registrationResponse") = 1
             /\ step'.response.message # "none" \/ step'.response.success
             /\ register[s].pc # "idle"
             /\ register'[s].pc = "idle"
       /\ (step'.op \in {"registerAwait", "registerInsert"}
           /\ step'.socket = s)
          => register'[s].pc # "idle"
       /\ step'.op # "register"
          => Occurrences(step'.emitted, "registrationResponse") = 0]_vars

\* the directory call of a login threw; the handler answered 'Login failed'
\* while a registration of the same connection is awaiting its insert
C14_Witness ==
  /\ step.op = "login"
  /\ step.result.error = "thrown"
  /\ step.response.message = "Login failed"
  /\ step.emitted = <<"loginResponse">>
  /\ register[step.socket].pc = "insert"

\* C16: when the existence check of a registration finds a record of the
\* username, the handler answers 'Username already exists', sends no insert,
\* creates no session entry and broadcasts nothing.
C16_TakenUsername ==
  [][\A s \in Sockets :
       (/\ register[s].pc = "check"
        /\ step'.socket = s
        /\ step'.op \in {"register", "registerInsert"}
        /\ step'.result.error = "none"
        /\ register[s].username \in DOMAIN User)
       => /\ step'.op = "register"
          /\ ~step'.response.success
          /\ step'.response.message = "Username already exists"
          /\ step'.emitted = <<"registrationResponse">>
          /\ ~step'.broadcast
          /\ register'[s].pc = "idle"
          /\ User' = User
          /\ players' = players]_vars

\* bob, registered earlier in the run, is registered again and refused
C16_Witness ==
  /\ step.op = "register"
  /\ step.username = "bob"
  /\ step.response.message = "Username already exists"
  /\ "bob" \in DOMAIN User
  /\ step.socket \notin DOMAIN players

\* C17: the answer to the insert of a registration whose username got a
\* record in the meantime is a failure that creates neither a record nor a
\* session entry; a success creates the one record of the username and the
\* session entry of that connection; records are never replaced.
C17_OneRecordOneSession ==
  [][/\ \A s \in Sockets :
          (register[s].pc = "insert" /\ register'[s].pc = "idle")
          => LET u == register[s].username
                 failure == /\ ~step'.response.success
                            /\ step'.response.message = "Registration failed"
                            /\ ~step'.broadcast
                            /\ User' = User
                            /\ players' = players
                 success == /\ step'.response.success
                            /\ DOMAIN User' = DOMAIN User \cup {u}
                            /\ User'[u].Username = u
                            /\ s \in DOMAIN players'
                            /\ players'[s].username = u
                            /\ players'[s].userId = User'[u].UserID
                            /\ ~players'[s].isGuest
             IN  /\ step'.op = "register"
                 /\ step'.socket = s
                 /\ IF u \in DOMAIN User THEN failure
                                          ELSE success \/ failure
     /\ \A u \in DOMAIN User : u \in DOMAIN User' /\ User'[u] = User[u]]_vars

\* both registrations of bob passed the existence check; the insert of one
\* has just succeeded and the other is still awaiting its own
C17_Witness ==
  /\ step.op = "register"
  /\ step.username = "bob"
  /\ step.response.success
  /\ step.socket \in DOMAIN players
  /\ \E s \in Sockets : /\ s # step.socket
                         /\ register[s].pc = "insert"
                         /\ register[s].username = "bob"

\* C15: the stored Highscore of a user never decreases: every write stores
\* a value greater than or equal to the value stored immediately before it,
\* for every interleaving of gameCompleted handlers.
C15_HighscoreNeverDecreases ==
  [][\A u \in DOMAIN User :
       /\ u \in DOMAIN User'
       /\ User'[u].Highscore >= User[u].Highscore]_vars

\* C20: a gameCompleted that does not overlap another one and whose score is
\* less than or equal to the stored Highscore leaves it unchanged and emits
\* no 'newHighScore'; one whose score is greater sets the stored Highscore
\* to exactly that score and emits 'newHighScore'; no other step emits it.
C20_UpdateIfHigher ==
  [][/\ \A g \in Games :
          /\ (game[g].pc = "update" /\ game'[g].pc = "reselect")
             => LET u == game[g].username
                    stored == User[u].Highscore
                IN  /\ game[g].Highscore = stored
                    /\ game[g].score <= stored
                       => User'[u].Highscore = stored
                    /\ game[g].score > stored
                       => User'[u].Highscore = game[g].score
          /\ (game[g].pc = "reselect" /\ game'[g].pc = "leaderboard")
             => (Occurrences(step'.emitted, "newHighScore") =
                   IF game[g].score > game[g].Highscore THEN 1 ELSE 0)
     /\ Occurrences(step'.emitted, "newHighScore") > 0
        => \E g \in Games : /\ game[g].pc = "reselect"
                             /\ game'[g].pc = "leaderboard"
     /\ (\A g \in Games : game[g].pc # "update")
        => \A u \in DOMAIN User : User'[u].Highscore = User[u].Highscore]_vars

\* a game with score 50 was completed when the stored Highscore was 80: the
\* Highscore is still 80 and only 'userUpdated' was emitted
C20_Witness ==
  /\ step.op = "gameReselect"
  /\ step.emitted = <<"userUpdated">>
  /\ User["alice"].Highscore = 80
  /\ User["alice"].GamesPlayed = 2
  /\ \E g \in Games : /\ game[g].pc = "leaderboard"
                       /\ game[g].score = 50
                       /\ game[g].Highscore = 80

\* C21: whenever a login of u returns success and establishes a non-guest
\* session of u, there is no lockedUntil[u] in the future at that moment.
C21_NoSuccessDuringLock ==
  \A u \in Usernames :
    (/\ Succeeded(u)
     /\ step.socket \in DOMAIN players
     /\ players[step.socket].username = u
     /\ ~players[step.socket].isGuest)
    => ~stillLocked(u)

\* C22 as claimed: once lockedUntil[u] is set to time T, its value does not
\* change and is not removed at any time before T.
C22_LockNeverMoved ==
  [][\A u \in Usernames :
       stillLocked(u)
       => /\ u \in DOMAIN userLockoutTimes'
          /\ userLockoutTimes'[u] = userLockoutTimes[u]]_vars

\* C22 as amended: once lockedUntil[u] is set to time T, it is not removed
\* at any time before T, and it changes before T only when a login that
\* passed the lock check before the lock was set fails afterwards, which
\* sets it again to that failure's time plus the lock duration.
C22_LockKeptUntilExpiry ==
  [][\A u \in Usernames :
       stillLocked(u)
       => /\ u \in DOMAIN userLockoutTimes'
          /\ userLockoutTimes'[u] # userLockoutTimes[u]
             => /\ Returns(u)
                /\ WrongPassword(u)'
                /\ userLockoutTimes'[u] = now + lockedFor'[u]]_vars

\* half a second into alice's lock a login that had passed the lock check
\* fails and sets the lock again
C22_Witness ==
  /\ WrongPassword("alice")
  /\ step.result.error = "Account locked"
  /\ attemptsOf("alice") = 4
  /\ now = 500
  /\ "alice" \in DOMAIN userLockoutTimes
  /\ userLockoutTimes["alice"] = 30500

\* C23: a non-guest entry with username u is written for connection c only
\* by the step that ends a login on c for u whose password digest equals
\* the stored one, or a registration of u on c whose insert created the
\* row; a login or registration that fails changes no registry entry and
\* broadcasts nothing.
C23_SessionOnlyByAuthentication ==
  [][/\ \A c \in Sockets :
          (/\ c \in DOMAIN players'
           /\ ~players'[c].isGuest
           /\ (c \notin DOMAIN players \/ players'[c] # players[c]))
          => LET u == players'[c].username
             IN  /\ step'.socket = c
                 /\ step'.username = u
                 /\ step'.response.success
                 /\ \/ /\ step'.op = "login"
                       /\ login[c].pc = "await"
                       /\ login[c].username = u
                       /\ u \in DOMAIN User
                       /\ User[u].Password_hash = sha256(login[c].password)
                       /\ players'[c].userId = User[u].UserID
                    \/ /\ step'.op = "register"
                       /\ register[c].pc = "insert"
                       /\ register[c].username = u
                       /\ u \notin DOMAIN User
                       /\ u \in DOMAIN User'
                       /\ players'[c].userId = User'[u].UserID
     /\ (step'.op \in {"login", "register"} /\ ~step'.response.success)
        => /\ players' = players
           /\ ~step'.broadcast
           /\ Occurrences(step'.emitted, "playerUpdate") = 0]_vars

\* a connection that holds a guest entry is refused as alice (the account
\* is locked) and is still a guest
C23_Witness ==
  /\ step.op = "login"
  /\ step.username = "alice"
  /\ step.response.message = "Account locked"
  /\ step.socket \in DOMAIN players
  /\ players[step.socket].isGuest
  /\ \E c \in Sockets : /\ c \in DOMAIN players
                         /\ ~players[c].isGuest
                         /\ players[c].username = "bob"

\* C24: a step of a login of username u leaves failedCount[v] and
\* lockedUntil[v] unchanged for every other username v, and a step of any
\* other handler (guest login, logout, disconnect, registration,
\* connection) changes no lockout state.
C24_LockoutIsolation ==
  [][/\ \A u \in Usernames, v \in Usernames :
          (/\ v # u
           /\ step'.op \in {"login", "loginAwait"}
           /\ step'.username = u)
          => Untouched(v)
     /\ step'.op \notin {"login", "loginAwait"}
        => /\ userLoginAttempts' = userLoginAttempts
           /\ userLockoutTimes' = userLockoutTimes]_vars

\* bob, registered in this run, has just logged in while alice is locked
\* with three failures counted
C24_Witness ==
  /\ step.op = "login"
  /\ step.username = "bob"
  /\ step.response.success
  /\ "bob" \in DOMAIN userLoginAttempts
  /\ attemptsOf("alice") = 3
  /\ stillLocked("alice")

\* C25: the stored GamesPlayed of a user equals the number of that user's
\* gameCompleted handlers that completed their update: every completed
\* update adds exactly 1 to the stored count, for every interleaving, and
\* no other step changes it.
C25_EachGameCounts ==
  [][\A u \in DOMAIN User :
       /\ u \in DOMAIN User'
       /\ IF \E g \in Games : /\ game[g].pc = "update"
                               /\ game'[g].pc = "reselect"
                               /\ game[g].username = u
            THEN User'[u].GamesPlayed = User[u].GamesPlayed + 1
            ELSE User'[u].GamesPlayed = User[u].GamesPlayed]_vars

====
